---- MODULE Spec2Model ----
(***************************************************************************)
(* Model of the CLIP ingestion service (src/clip-service): the message     *)
(* converter (message_converter.py), the image download step               *)
(* (minio_handler.py) and the queue worker CLIPService (main.py,           *)
(* main_enhanced.py).                                                      *)
(*                                                                         *)
(* Strings are sequences of one-character strings.  A JSON value of a     *)
(* message field is a record [k, s]: k = "missing" (key absent),           *)
(* k = "none" (null / None) or k = "str" with the characters in s.         *)
(***************************************************************************)
EXTENDS Integers, Sequences, FiniteSets, TLC

(***************************************************************************)
(* Bounds of the model.                                                    *)
(***************************************************************************)
MaxMsgs == 2
MaxDeliveries == 2

(***************************************************************************)
(* Python string helpers.                                                  *)
(***************************************************************************)
Whitespace == {" ", "\t", "\n", "\r"}

RECURSIVE LStrip(_, _)
LStrip(s, chars) ==
    IF s = <<>> THEN <<>>
    ELSE IF Head(s) \in chars THEN LStrip(Tail(s), chars) ELSE s

\* the length of s[1..n] without its trailing characters of chars
RECURSIVE RStripLen(_, _, _)
RStripLen(s, n, chars) ==
    IF n = 0 THEN 0
    ELSE IF s[n] \in chars THEN RStripLen(s, n - 1, chars) ELSE n

RStrip(s, chars) == SubSeq(s, 1, RStripLen(s, Len(s), chars))

\* str.strip() / str.strip(chars)
Strip(s, chars) == RStrip(LStrip(s, chars), chars)

\* str.replace(a, b) for single characters
Replace(s, a, b) == [i \in 1..Len(s) |-> IF s[i] = a THEN b ELSE s[i]]

\* re.sub(r'<class>+', rep, s): every maximal run of characters of the class
\* becomes one rep: the first character of a run is replaced, the others go
KeptChar(x) == x.keep

CollapseRuns(s, class, rep) ==
    LET marked == [i \in 1..Len(s) |->
                      [c |-> IF s[i] \in class THEN rep ELSE s[i],
                       keep |-> ~(s[i] \in class /\ i > 1 /\ s[i - 1] \in class)]]
        kept == SelectSeq(marked, KeptChar)
    IN  [i \in 1..Len(kept) |-> kept[i].c]

\* position of the first occurrence of character c in s, 0 when absent
RECURSIVE IndexOf(_, _)
IndexOf(s, c) ==
    IF s = <<>> THEN 0
    ELSE IF Head(s) = c THEN 1
    ELSE LET r == IndexOf(Tail(s), c) IN IF r = 0 THEN 0 ELSE r + 1

\* position of the last occurrence of character c in s, 0 when absent
RECURSIVE LastIndexIn(_, _, _)
LastIndexIn(s, n, c) ==
    IF n = 0 THEN 0
    ELSE IF s[n] = c THEN n ELSE LastIndexIn(s, n - 1, c)

LastIndexOf(s, c) == LastIndexIn(s, Len(s), c)

\* position of the first character of s that lies in set cs, 0 when none
RECURSIVE IndexOfAny(_, _)
IndexOfAny(s, cs) ==
    IF s = <<>> THEN 0
    ELSE IF Head(s) \in cs THEN 1
    ELSE LET r == IndexOfAny(Tail(s), cs) IN IF r = 0 THEN 0 ELSE r + 1

Contains(s, c) == \E i \in 1..Len(s) : s[i] = c

\* sub is a contiguous substring of s
HasSubstring(s, sub) ==
    \E i \in 0..(Len(s) - Len(sub)) : SubSeq(s, i + 1, i + Len(sub)) = sub

Lower(c) ==
    CASE c = "M" -> "m" [] c = "I" -> "i" [] c = "N" -> "n" [] c = "O" -> "o"
      [] OTHER -> c

LowerStr(s) == [i \in 1..Len(s) |-> Lower(s[i])]

Digits == {"0", "1", "2", "3", "4", "5", "6", "7", "8", "9"}

DigitVal(c) ==
    CASE c = "0" -> 0 [] c = "1" -> 1 [] c = "2" -> 2 [] c = "3" -> 3
      [] c = "4" -> 4 [] c = "5" -> 5 [] c = "6" -> 6 [] c = "7" -> 7
      [] c = "8" -> 8 [] c = "9" -> 9 [] OTHER -> 0

\* the number written by the first n digits of s
RECURSIVE ParseDigits(_, _)
ParseDigits(s, n) ==
    IF n = 0 THEN 0 ELSE 10 * ParseDigits(s, n - 1) + DigitVal(s[n])

ParseInt(s) == ParseDigits(s, Len(s))

\* number of bytes of the UTF-8 encoding of one character;
\* "e_acute" stands for the one non-ASCII character of the model's alphabet
Utf8Len(c) == IF c = "e_acute" THEN 2 ELSE 1

\* number of bytes of s[lo..hi] in UTF-8
RECURSIVE Utf8Range(_, _, _)
Utf8Range(s, lo, hi) ==
    IF lo > hi THEN 0
    ELSE IF lo = hi THEN Utf8Len(s[lo])
    ELSE Utf8Range(s, lo, (lo + hi) \div 2) + Utf8Range(s, (lo + hi) \div 2 + 1, hi)

\* len(s.encode('utf-8'))
Utf8Bytes(s) == Utf8Range(s, 1, Len(s))

(***************************************************************************)
(* JSON values and Python dict access.                                     *)
(***************************************************************************)
Missing == [k |-> "missing", s |-> <<>>]
None == [k |-> "none", s |-> <<>>]
Str(s) == [k |-> "str", s |-> s]

Fields == {"item_id", "text", "title", "description", "category", "location",
           "date_lost", "contact_info", "contact_email", "contact_phone",
           "image_key", "image_url"}

\* dict.get(f, default)
Get(message, f, default) == IF message[f].k = "missing" THEN default ELSE message[f]

\* truthiness of a value
Truthy(v) == v.k = "str" /\ v.s # <<>>

\* str(v)
PyStr(v) == IF v.k = "str" THEN v.s ELSE <<"N", "o", "n", "e">>

(***************************************************************************)
(* MessageConverter (message_converter.py).                                *)
(***************************************************************************)
Stats0 == [total_processed |-> 0, url_format |-> 0, key_format |-> 0,
           no_image |-> 0, errors |-> 0]

_normalize_object_key(key) ==
    LET k1 == Strip(Strip(key, Whitespace), {"/"})
        k2 == Replace(k1, "\\", "/")
    IN  CollapseRuns(k2, {"/"}, "/")

_normalize_text(text) ==
    IF text.k = "none" THEN <<>>
    ELSE CollapseRuns(Strip(PyStr(text), Whitespace), Whitespace, " ")

\* s[:i-1] and s[i-1:] for a 1-based position i; i = 0 (not found) gives
\* the whole of s and the empty string
Before(s, i) == IF i = 0 THEN s ELSE SubSeq(s, 1, i - 1)
From(s, i) == IF i = 0 THEN <<>> ELSE SubSeq(s, i, Len(s))

\* s.find(c, start): position of the first c after the first start
\* characters, 0 when absent
FindFrom(s, c, start) ==
    IF IndexOf(SubSeq(s, start + 1, Len(s)), c) = 0 THEN 0
    ELSE start + IndexOf(SubSeq(s, start + 1, Len(s)), c)

\* urllib.parse.urlsplit: the url after its scheme, colon = url.find(':')
_splitscheme(url, colon) ==
    IF colon > 1 /\ IndexOfAny(SubSeq(url, 1, colon - 1), {"/", "?", "#"}) = 0
    THEN SubSeq(url, colon + 1, Len(url)) ELSE url

\* urllib.parse._splitnetloc behind a leading "//": [netloc, rest]
_splitnetloc(url) ==
    [netloc |-> Before(url, IndexOfAny(url, {"/", "?", "#"})),
     rest |-> From(url, IndexOfAny(url, {"/", "?", "#"}))]

\* urllib.parse._splitparams: the path without the parameters of its last segment
_splitparams(url) == Before(url, FindFrom(url, ";", LastIndexOf(url, "/")))

\* SplitResult.port reads hostinfo.rpartition(':') of netloc.rpartition('@')[2]
_hostinfo(netloc) == SubSeq(netloc, LastIndexOf(netloc, "@") + 1, Len(netloc))

PortStr(hostinfo) ==
    IF LastIndexOf(hostinfo, ":") = 0 THEN <<>>
    ELSE SubSeq(hostinfo, LastIndexOf(hostinfo, ":") + 1, Len(hostinfo))

IsDigits(s) == \A i \in 1..Len(s) : s[i] \in Digits

\* SplitResult.port raises ValueError on a non-numeric or out-of-range port
PortOk(portStr) == IsDigits(portStr) /\ (portStr = <<>> \/ ParseInt(portStr) <= 65535)

\* urllib.parse.urlparse restricted to what _url_to_object_key reads: netloc,
\* port and path.  ok = FALSE stands for the ValueError that reading .port
\* raises.
ParseResult(netloc, path, portStr) ==
    [netloc |-> netloc, path |-> path, ok |-> PortOk(portStr),
     port |-> IF portStr = <<>> \/ ~PortOk(portStr) THEN -1 ELSE ParseInt(portStr)]

UrlParseSplit(sp) ==
    ParseResult(sp.netloc,
                _splitparams(Before(sp.rest, IndexOfAny(sp.rest, {"?", "#"}))),
                PortStr(_hostinfo(sp.netloc)))

UrlParseRest(rest) ==
    UrlParseSplit(IF Len(rest) >= 2 /\ rest[1] = "/" /\ rest[2] = "/"
                  THEN _splitnetloc(SubSeq(rest, 3, Len(rest)))
                  ELSE [netloc |-> <<>>, rest |-> rest])

UrlParse(url) == UrlParseRest(_splitscheme(url, IndexOf(url, ":")))

StoragePort == 9000

\* a conversion that only knows the file-name rule
_object_key_of_filename_only(parsed) ==
    LET filename == SubSeq(parsed.path, LastIndexOf(parsed.path, "/") + 1, Len(parsed.path))
    IN  IF ~parsed.ok THEN None
        ELSE IF parsed.path # <<>> /\ filename # <<>> /\ Contains(filename, ".")
             THEN Str(<<"i", "t", "e", "m", "s", "/">> \o filename)
        ELSE None

\* _url_to_object_key after parsed = urlparse(url): None or a string
_object_key_of(parsed) ==
    LET isMinio == HasSubstring(LowerStr(parsed.netloc), <<"m", "i", "n", "i", "o">>)
        stripped == Strip(parsed.path, {"/"})
        filename == SubSeq(parsed.path, LastIndexOf(parsed.path, "/") + 1, Len(parsed.path))
    IN  IF ~isMinio /\ ~parsed.ok THEN None
        ELSE IF (isMinio \/ parsed.port = StoragePort) /\ IndexOf(stripped, "/") > 0
             THEN Str(SubSeq(stripped, IndexOf(stripped, "/") + 1, Len(stripped)))
        ELSE IF parsed.path # <<>> /\ filename # <<>> /\ Contains(filename, ".")
             THEN Str(<<"i", "t", "e", "m", "s", "/">> \o filename)
        ELSE None

\* the result of _url_to_object_key: None or a string
_url_to_object_key(url) == _object_key_of(UrlParse(url))

\* an _extract_image_key that tries image_url before image_key
_extract_image_key_url_first(message) ==
    LET key == IF Truthy(message["image_key"])
               THEN Strip(PyStr(message["image_key"]), Whitespace) ELSE <<>>
        url == IF Truthy(message["image_url"])
               THEN Strip(PyStr(message["image_url"]), Whitespace) ELSE <<>>
        object_key == _url_to_object_key(url)
    IN  IF url # <<>>
        THEN IF Truthy(object_key)
             THEN [key |-> object_key.s, counter |-> "url_format"]
             ELSE [key |-> <<>>, counter |-> "errors"]
        ELSE IF key # <<>> THEN [key |-> _normalize_object_key(key), counter |-> "key_format"]
        ELSE [key |-> <<>>, counter |-> "no_image"]

\* _extract_image_key: the key and the counter it increments
_extract_image_key(message) ==
    LET key == IF Truthy(message["image_key"])
               THEN Strip(PyStr(message["image_key"]), Whitespace) ELSE <<>>
        url == IF Truthy(message["image_url"])
               THEN Strip(PyStr(message["image_url"]), Whitespace) ELSE <<>>
        object_key == _url_to_object_key(url)
    IN  IF key # <<>> THEN [key |-> _normalize_object_key(key), counter |-> "key_format"]
        ELSE IF url # <<>>
             THEN IF Truthy(object_key)
                  THEN [key |-> object_key.s, counter |-> "url_format"]
                  ELSE [key |-> <<>>, counter |-> "errors"]
        ELSE [key |-> <<>>, counter |-> "no_image"]

JoinContact(email, phone) ==
    IF Truthy(email) /\ Truthy(phone) THEN email.s \o <<",", " ">> \o phone.s
    ELSE IF Truthy(email) THEN email.s
    ELSE IF Truthy(phone) THEN phone.s
    ELSE <<>>

\* normalized = message: the updates are made to the caller's mapping
message_alias(message, normalized) == normalized

\* line 45, normalized = message.copy(): the updates go to the copy, and the
\* caller's mapping is afterwards what it was
message_copy(message, normalized) == message

\* normalize_message: the normalized mapping
normalize_message(message) ==
    [f \in Fields |->
        CASE f = "image_key" -> Str(_extract_image_key(message).key)
          [] f = "image_url" -> Missing
          [] f \in {"text", "description", "category", "location"} ->
                Str(_normalize_text(Get(message, f, Str(<<>>))))
          [] f \in {"item_id", "date_lost"} -> Get(message, f, Str(<<>>))
          [] f = "contact_info" ->
                IF Truthy(message["contact_info"]) THEN message["contact_info"]
                ELSE Str(JoinContact(message["contact_email"], message["contact_phone"]))
          [] OTHER -> message[f]]

\* counters on which only _extract_image_key counts
normalize_stats_without_total(stats, c) == [stats EXCEPT ![c] = @ + 1]

\* normalize_message: the converter's counters afterwards, c being the counter
\* that _extract_image_key increments
normalize_stats(stats, c) ==
    [[stats EXCEPT !.total_processed = @ + 1] EXCEPT ![c] = @ + 1]

ControlChars == {"\\", "NUL", "\n", "\r", "\t"}
MaxKeyBytes == 1024

\* an _is_valid_object_key that limits the number of characters
_is_valid_object_key_by_chars(key) ==
    /\ key.k = "str" /\ key.s # <<>>
    /\ \A i \in 1..Len(key.s) : key.s[i] \notin ControlChars
    /\ Len(key.s) <= MaxKeyBytes

_is_valid_object_key(key) ==
    /\ key.k = "str" /\ key.s # <<>>
    /\ \A i \in 1..Len(key.s) : key.s[i] \notin ControlChars
    /\ Utf8Bytes(key.s) <= MaxKeyBytes

\* validate_message: [ok, reason]
validate_message(message) ==
    IF ~Truthy(Get(message, "item_id", None))
    THEN [ok |-> FALSE, reason |-> "Missing required field: item_id"]
    ELSE IF ~(Truthy(message["text"]) \/ Truthy(message["description"])
               \/ Truthy(message["category"]))
    THEN [ok |-> FALSE, reason |-> "Message must contain at least one text field"]
    ELSE IF Truthy(Get(message, "image_key", Str(<<>>)))
            /\ ~_is_valid_object_key(message["image_key"])
    THEN [ok |-> FALSE, reason |-> "Invalid image_key format"]
    ELSE [ok |-> TRUE, reason |-> "None"]

create_output_message(input_message, embedding, has_image_embedding, timestamp) ==
    [item_id |-> Get(input_message, "item_id", Str(<<>>)),
     embedding |-> embedding,
     title |-> Get(input_message, "text", Str(<<>>)),
     description |-> Get(input_message, "description", Str(<<>>)),
     category |-> Get(input_message, "category", Str(<<>>)),
     location |-> Get(input_message, "location", Str(<<>>)),
     date_lost |-> Get(input_message, "date_lost", Str(<<>>)),
     image_key |-> Get(input_message, "image_key", Str(<<>>)),
     contact_info |-> Get(input_message, "contact_info", Str(<<>>)),
     timestamp |-> timestamp,
     has_image_embedding |-> has_image_embedding]

(***************************************************************************)
(* Embedding vectors.  A vector is [dim, c]: dim is its number of          *)
(* components (len(v)), c its leading components in fixed point (Scale     *)
(* stands for 1.0); the components after Len(c) are 0.                     *)
(***************************************************************************)
Scale == 10 * 100
D == 512

UnitVecs == {<<Scale, 0>>, <<0, Scale>>}

\* the projection dimensions a loaded model can have: the expected one and
\* that of a larger CLIP model
ProjectionDims == {D, D + 256}

Dot(a, b) == a[1] * b[1] + a[2] * b[2]

RECURSIVE SqrtSearch(_, _, _)
SqrtSearch(x, lo, hi) ==
    IF lo >= hi THEN lo
    ELSE LET mid == (lo + hi + 1) \div 2
         IN  IF mid * mid <= x THEN SqrtSearch(x, mid, hi) ELSE SqrtSearch(x, lo, mid - 1)

\* floor of the square root
ISqrt(x) == SqrtSearch(x, 0, IF x < 46340 THEN x ELSE 46340)

\* numpy.linalg.norm in fixed point
Norm(c) == ISqrt(Dot(c, c))

\* main.py: (text_embedding + image_embedding) / 2
average_embeddings(text_embedding, image_embedding) ==
    [dim |-> text_embedding.dim,
     c |-> [i \in 1..2 |-> (text_embedding.c[i] + image_embedding.c[i]) \div 2]]

\* clip_handler_enhanced.combine_embeddings with text_weight = tenths / 10;
\* ok = FALSE stands for the ValueError, nan for the division by a zero norm
combine_embeddings(text_embedding, image_embedding, tenths) ==
    LET comb == [i \in 1..2 |-> tenths * text_embedding.c[i]
                                  + (10 - tenths) * image_embedding.c[i]]
        n == Norm(comb)
    IN  IF tenths < 0 \/ tenths > 10 THEN [ok |-> FALSE, nan |-> FALSE, dim |-> 0, c |-> <<0, 0>>]
        ELSE IF n = 0 THEN [ok |-> TRUE, nan |-> TRUE, dim |-> text_embedding.dim, c |-> <<0, 0>>]
        ELSE [ok |-> TRUE, nan |-> FALSE, dim |-> text_embedding.dim,
              c |-> [i \in 1..2 |-> (comb[i] * Scale) \div n]]

(***************************************************************************)
(* Inbound payloads.                                                       *)
(***************************************************************************)
NoFields == [f \in Fields |-> Missing]

S_x1 == <<"x", "1">>
S_lost_wallet == <<"l", "o", "s", "t", " ", "w", "a", "l", "l", "e", "t">>
S_items_a_jpg == <<"i", "t", "e", "m", "s", "/", "a", ".", "j", "p", "g">>

Object(fields) == [kind |-> "object", fields |-> fields]

P_bad_utf8 == [kind |-> "bad_utf8", fields |-> NoFields]
P_bad_json == [kind |-> "bad_json", fields |-> NoFields]
P_non_object == [kind |-> "non_object", fields |-> NoFields]
P_text_only ==
    Object([NoFields EXCEPT !["item_id"] = Str(S_x1), !["text"] = Str(S_lost_wallet)])
P_no_item_id == Object([NoFields EXCEPT !["text"] = Str(S_lost_wallet)])
P_with_image ==
    Object([NoFields EXCEPT !["item_id"] = Str(S_x1), !["text"] = Str(S_lost_wallet),
                            !["image_key"] = Str(S_items_a_jpg)])

Payloads == {P_bad_utf8, P_bad_json, P_non_object, P_text_only, P_no_item_id, P_with_image}

(***************************************************************************)
(* Inbound mappings for the converter: image keys, legacy image URLs and   *)
(* text fields.                                                            *)
(***************************************************************************)
KeyChars == {"/", " ", "\\", "a"}

K_slash_space_a == <<"/", " ", "a">>
K_a_space_slash == <<"a", " ", "/">>
K_a_slashes_b == <<"a", "/", "/", "b">>
K_newline == <<"a", "\n", "b">>
K_tab == <<"a", "\t", "b">>
K_cr == <<"a", "\r", "b">>
K_nul == <<"a", "NUL", "b">>

\* a key of MaxKeyBytes bytes and one that is a character longer; every
\* character takes two bytes
K_max == [i \in 1..(MaxKeyBytes \div 2) |-> "e_acute"]
K_long == [i \in 1..(MaxKeyBytes \div 2 + 1) |-> "e_acute"]

\* the image_key strings: every string of at most two characters of
\* KeyChars and the keys above
KeyStrings ==
    {<<>>} \cup {<<c>> : c \in KeyChars} \cup {<<c, d>> : c \in KeyChars, d \in KeyChars}
        \cup {S_items_a_jpg, K_slash_space_a, K_a_space_slash, K_a_slashes_b,
              K_newline, K_tab, K_cr, K_nul, K_max, K_long}

U_plain == <<"h", "t", "t", "p", "s", ":", "/", "/", "h", "/", "i", "/", "a", ".", "j", "p", "g">>
U_minio == <<"h", "t", "t", "p", ":", "/", "/", "m", "i", "n", "i", "o", "/", "b", "/", "k", "/", "a", ".", "j", "p", "g">>
U_upper == <<"h", "t", "t", "p", ":", "/", "/", "M", "i", "n", "I", "O", "/", "b", "/", "a", ".", "j", "p", "g">>
U_port == <<"h", "t", "t", "p", ":", "/", "/", "h", ":", "9", "0", "0", "0", "/", "b", "/", "a", ".", "j", "p", "g">>
U_minio_one == <<"h", "t", "t", "p", ":", "/", "/", "m", "i", "n", "i", "o", "/", "a", ".", "j", "p", "g">>
U_port_one == <<"h", "t", "t", "p", ":", "/", "/", "h", ":", "9", "0", "0", "0", "/", "a">>
U_no_dot == <<"h", "t", "t", "p", "s", ":", "/", "/", "h", "/", "i", "/", "a">>
U_not_a_url == <<"n", "o", "u", "r", "l">>
U_bad_port == <<"h", "t", "t", "p", ":", "/", "/", "h", ":", "x", "/", "a", ".", "j", "p", "g">>
U_minio_bad_port == <<"h", "t", "t", "p", ":", "/", "/", "m", "i", "n", "i", "o", ":", "x", "/", "b", "/", "a", ".", "j", "p", "g">>
U_slashes == <<"h", "t", "t", "p", ":", "/", "/", "m", "i", "n", "i", "o", "/", "b", "/", "/", "a", ".", "j", "p", "g">>
U_backslash == <<"h", "t", "t", "p", ":", "/", "/", "m", "i", "n", "i", "o", "/", "b", "/", "a", "\\", "b">>
U_query == <<"h", "t", "t", "p", "s", ":", "/", "/", "h", "/", "a", ".", "j", "p", "g", "?", "x">>
U_dir == <<"h", "t", "t", "p", "s", ":", "/", "/", "h", "/", "a", ".", "b", "/">>

Urls == {U_plain, U_minio, U_upper, U_port, U_minio_one, U_port_one, U_no_dot,
         U_not_a_url, U_bad_port, U_minio_bad_port, U_slashes, U_backslash,
         U_query, U_dir}

S_padded == <<" ", "a", " ", " ", "b", " ">>
S_lines == <<"a", "\n", "\t", "b">>
S_a == <<"a">>
S_blank == <<" ", " ">>

\* a message with an id, a text and the given image_key and image_url
WithImage(image_key, image_url) ==
    Object([NoFields EXCEPT !["item_id"] = Str(S_x1), !["text"] = Str(S_lost_wallet),
                            !["image_key"] = image_key, !["image_url"] = image_url])

KeyPayloads == {WithImage(Str(k), u) : k \in KeyStrings, u \in {Missing, Str(U_plain)}}

UrlPayloads ==
    {WithImage(k, Str(u)) : k \in {Missing, None, Str(<<" ">>)}, u \in Urls}
        \cup {WithImage(Missing, Str(S_blank))}

T_padded ==
    Object([NoFields EXCEPT !["item_id"] = Str(S_x1), !["text"] = Str(S_padded),
                            !["description"] = Str(S_lines), !["category"] = None,
                            !["location"] = Str(S_padded), !["date_lost"] = Str(S_padded),
                            !["contact_info"] = Str(S_padded)])
T_none ==
    Object([NoFields EXCEPT !["item_id"] = Str(S_x1), !["text"] = None,
                            !["description"] = Str(S_a), !["location"] = None,
                            !["date_lost"] = None, !["contact_info"] = None])
T_contact ==
    Object([NoFields EXCEPT !["item_id"] = Str(S_x1), !["category"] = Str(S_a),
                            !["contact_email"] = Str(S_a), !["contact_phone"] = Str(S_x1)])
T_title == Object([NoFields EXCEPT !["item_id"] = Str(S_x1), !["title"] = Str(S_a)])
T_blank_text ==
    Object([NoFields EXCEPT !["item_id"] = Str(S_x1), !["text"] = Str(S_blank),
                            !["image_key"] = Str(K_newline)])
T_none_id == Object([NoFields EXCEPT !["item_id"] = None, !["text"] = Str(S_a)])
T_empty_id ==
    Object([NoFields EXCEPT !["item_id"] = Str(<<>>), !["image_key"] = Str(K_tab)])

TextPayloads == {T_padded, T_none, T_contact, T_title, T_blank_text, T_none_id, T_empty_id}

ConvPayloads == KeyPayloads \cup UrlPayloads \cup TextPayloads \cup {P_text_only, P_no_item_id}

\* every payload that is delivered in some run
AllPayloads == Payloads \cup ConvPayloads

\* what normalize_message returns for the fields of each payload, what the
\* caller's mapping is afterwards, which
\* counter _extract_image_key increments, and what validate_message returns
\* for the normalized message (computed once per payload)
normalized ==
    [fields \in {p.fields : p \in AllPayloads} |->
        [message |-> normalize_message(fields),
         raw |-> message_copy(fields, normalize_message(fields)),
         counter |-> _extract_image_key(fields).counter,
         valid |-> validate_message(normalize_message(fields))]]

(***************************************************************************)
(* State.                                                                  *)
(***************************************************************************)
Workers == {"w1", "w2"}
MsgIds == 1..MaxMsgs

VARIABLES
    msgs,            \* the input queue q.lost-items.embed: per message its payload,
                     \* broker state and number of deliveries
    wstate,          \* per worker: position in start()
    conn,            \* per worker: the channel of the service and the locals of
                     \* connect_rabbitmq
    projection_dim,  \* the projection dimension of the CLIP model of the deployment
    pc,              \* per worker: position in process_message
    h,               \* per worker: the locals of the current / last process_message call
    conv_stats,      \* per worker: MessageConverter.stats
    tmp,             \* the files in tmp_dir (/tmp/clip-images)
    legacy           \* the legacy data converter: its input queue
                     \* q.datasets.process and the locals of its process_message

vars == <<msgs, wstate, conn, projection_dim, pc, h, conv_stats, tmp, legacy>>

\* the state of the CLIP workers
clip_vars == <<msgs, wstate, conn, projection_dim, pc, h, conv_stats, tmp>>

H0 == [msg |-> 0, body |-> P_bad_json, fault |-> FALSE, message |-> NoFields,
       raw_message |-> NoFields, error_msg |-> "None",
       text_weight |-> 6, combined |-> <<>>,
       text_embedding |-> <<>>,
       image_embedding |-> <<>>, image_path |-> <<>>, records |-> <<>>,
       calls |-> <<>>, ran |-> {}, resp |-> <<>>]

MaxDatasets == 2
MaxRows == 2
DatasetIds == 1..MaxDatasets

\* the dataset messages of the model: a body that is not JSON, a JSON value
\* that is not an object, an object without file_data, file_data that is
\* not base64, a file that the extractor rejects, a file of unstructured
\* text, and files of 1..MaxRows rows
Datasets ==
    {[kind |-> k, rows |-> 0] : k \in {"bad_json", "non_object", "no_file_data",
                                       "bad_base64", "bad_file", "text"}}
        \cup {[kind |-> "rows", rows |-> n] : n \in 1..MaxRows}

\* the converter between two deliveries
L0 == [pc |-> "idle", cur |-> 0, items |-> 0, published_count |-> 0, sent |-> {},
       temp_file |-> FALSE, calls |-> <<>>]

Legacy0 ==
    [ds |-> [d \in DatasetIds |-> [payload |-> [kind |-> "bad_json", rows |-> 0],
                                   st |-> "none", deliveries |-> 0]],
     run |-> L0]

\* main.py lines 54-55: no connection and no channel after __init__
Conn0 == [attempt |-> 0, sleeps |-> 0, waiting |-> FALSE, channel |-> "none",
          prefetch_count |-> 0]

\* the channel when connect_rabbitmq has returned: open, with
\* basic_qos(prefetch_count=1) (main.py line 88)
ConnOpen == [Conn0 EXCEPT !.channel = "open", !.prefetch_count = 1]

Init ==
    /\ msgs = [m \in MsgIds |-> [payload |-> P_bad_json, st |-> "none", deliveries |-> 0,
                                 published |-> FALSE]]
    /\ wstate = [w \in Workers |-> "new"]
    /\ conn = [w \in Workers |-> Conn0]
    /\ projection_dim \in ProjectionDims
    /\ pc = [w \in Workers |-> "idle"]
    /\ h = [w \in Workers |-> H0]
    /\ conv_stats = [w \in Workers |-> Stats0]
    /\ tmp = {}
    /\ legacy = Legacy0

RECURSIVE SumDeliveries(_)
SumDeliveries(n) == IF n = 0 THEN 0 ELSE msgs[n].deliveries + SumDeliveries(n - 1)

\* datetime.utcnow(): a clock that advances with every delivery
utcnow == SumDeliveries(MaxMsgs)

(***************************************************************************)
(* CLIPService.start (main.py).                                            *)
(***************************************************************************)
\* clip_handler.load_model(): raises when the model cannot be loaded
LoadModel(w) ==
    /\ wstate[w] = "new"
    /\ \/ wstate' = [wstate EXCEPT ![w] = "loaded"]
       \/ wstate' = [wstate EXCEPT ![w] = "stopped"]
    /\ UNCHANGED <<msgs, conn, projection_dim, pc, h, conv_stats, tmp, legacy>>

\* a start() that connects whether or not the model has been loaded
Connect_without_model(w) ==
    /\ wstate[w] \in {"new", "loaded"}
    /\ wstate' = [wstate EXCEPT ![w] = "consuming"]
    /\ conn' = [conn EXCEPT ![w] = ConnOpen]
    /\ UNCHANGED <<msgs, projection_dim, pc, h, conv_stats, tmp, legacy>>

\* connect_rabbitmq() returns with the channel open and basic_consume
\* registers process_message (lines 205-215); the attempts that
\* connect_rabbitmq makes are the steps of ConnectSpec
Connect(w) ==
    /\ wstate[w] = "loaded"
    /\ wstate' = [wstate EXCEPT ![w] = "consuming"]
    /\ conn' = [conn EXCEPT ![w] = ConnOpen]
    /\ UNCHANGED <<msgs, projection_dim, pc, h, conv_stats, tmp, legacy>>

(***************************************************************************)
(* Producer and broker.                                                    *)
(***************************************************************************)
\* a consumer without basic_qos: deliveries are pushed whatever is unacknowledged
basic_qos_unlimited(w) == TRUE

\* main.py line 88, basic_qos(prefetch_count=1): the broker pushes nothing to
\* a consumer that holds an unacknowledged delivery, and start_consuming
\* dispatches the next callback only after process_message has returned
basic_qos(w) == pc[w] = "idle"

\* the broker hands message m with payload p to a consuming worker that has
\* no unacknowledged delivery (prefetch_count = 1)
Receive(w, m, p) ==
    /\ wstate[w] = "consuming"
    /\ basic_qos(w)
    /\ msgs' = [msgs EXCEPT ![m].payload = p, ![m].st = "unacked", ![m].deliveries = @ + 1]
    /\ h' = [h EXCEPT ![w] = [H0 EXCEPT !.msg = m, !.body = p,
                                         !.fault = projection_dim # D]]
    /\ pc' = [pc EXCEPT ![w] = "parse"]
    /\ UNCHANGED <<wstate, conn, projection_dim, conv_stats, tmp, legacy>>

\* a delivery within the delivery budget of the model
Handover(w, m, p) ==
    /\ utcnow < MaxDeliveries
    /\ Receive(w, m, p)

\* a producer publishes payload p with routing key item.submitted and the
\* broker delivers it for the first time
Deliver(w, m, p) ==
    /\ msgs[m].st = "none"
    /\ \A k \in MsgIds : k < m => msgs[k].st # "none"
    /\ Handover(w, m, p)

\* the broker delivers a requeued message again
Redeliver(w, m) ==
    /\ msgs[m].st = "ready"
    /\ Handover(w, m, msgs[m].payload)

(***************************************************************************)
(* CLIPService.process_message (main.py).                                  *)
(***************************************************************************)
\* except clauses that never requeue
ExceptClause_never_requeue(exc) == "nack_drop"

\* except clauses without the json.JSONDecodeError branch
ExceptClause_catch_all(exc) == "nack_requeue"

\* lines 189-195: the except clauses of process_message choose the nack
ExceptClause(exc) == IF exc = "JSONDecodeError" THEN "nack_drop" ELSE "nack_requeue"

\* a disposition made twice
Dispose_twice(w, hw, call) ==
    LET done == [hw EXCEPT !.calls = Append(Append(@, call), call)]
    IN  /\ msgs' = [msgs EXCEPT ![hw.msg].st =
                        CASE call = "ack" -> "acked"
                          [] call = "nack_drop" -> "dropped"
                          [] OTHER -> "ready"]
        /\ h' = [h EXCEPT ![w] = done]
        /\ pc' = [pc EXCEPT ![w] = "done"]

\* ch.basic_ack / ch.basic_nack on the delivery, which ends the call
Dispose(w, hw, call) ==
    LET done == [hw EXCEPT !.calls = Append(@, call)]
    IN  /\ msgs' = [msgs EXCEPT ![hw.msg].st =
                        CASE call = "ack" -> "acked"
                          [] call = "nack_drop" -> "dropped"
                          [] OTHER -> "ready"]
        /\ h' = [h EXCEPT ![w] = done]
        /\ pc' = [pc EXCEPT ![w] = "done"]

\* lines 110-113: json.loads(body.decode('utf-8')) and raw_message.get
Parse(w) ==
    /\ pc[w] = "parse"
    /\ CASE h[w].body.kind = "bad_json" -> Dispose(w, h[w], ExceptClause("JSONDecodeError"))
         [] h[w].body.kind = "bad_utf8" -> Dispose(w, h[w], ExceptClause("UnicodeDecodeError"))
         [] h[w].body.kind = "non_object" -> Dispose(w, h[w], ExceptClause("AttributeError"))
         [] OTHER -> /\ pc' = [pc EXCEPT ![w] = "normalize"]
                     /\ h' = [h EXCEPT ![w].raw_message = h[w].body.fields]
                     /\ UNCHANGED msgs
    /\ UNCHANGED <<wstate, conn, projection_dim, conv_stats, tmp, legacy>>

\* lines 115-123: normalize_message, validate_message
Normalize(w) ==
    /\ pc[w] = "normalize"
    /\ \E n \in {normalized[h[w].body.fields]} : \E message \in {n.message} :
         LET hw == [h[w] EXCEPT !.message = message, !.raw_message = n.raw,
                                !.error_msg = n.valid.reason,
                                !.ran = @ \cup {"normalize"}]
         IN  /\ conv_stats' = [conv_stats EXCEPT ![w] = normalize_stats(@, n.counter)]
             /\ IF n.valid.ok
                THEN /\ h' = [h EXCEPT ![w] = hw]
                     /\ pc' = [pc EXCEPT ![w] = "encode_text"]
                     /\ UNCHANGED msgs
                ELSE Dispose(w, hw, "ack")
    /\ UNCHANGED <<wstate, conn, projection_dim, tmp, legacy>>

\* a collaborator's answer, as recorded in resp
Resp(op, r, c) == [op |-> op, r |-> r, c |-> c]

\* the answers of the encoder: a unit vector of the model's dimension, or an exception
EncoderAnswers(op) == {Resp(op, "ok", u) : u \in UnitVecs} \cup {Resp(op, "raise", <<0, 0>>)}

\* lines 125-140: combined_text and clip_handler.encode_text
EncodeText(w) ==
    /\ pc[w] = "encode_text"
    /\ \E a \in EncoderAnswers("encode_text") :
         LET hw == [h[w] EXCEPT !.resp = Append(@, a), !.ran = @ \cup {"encode_text"}]
         IN  IF a.r = "raise"
             THEN Dispose(w, hw, ExceptClause("RuntimeError"))
             ELSE /\ h' = [h EXCEPT ![w] = [hw EXCEPT !.text_embedding =
                                               <<[dim |-> projection_dim, c |-> a.c]>>]]
                  /\ pc' = [pc EXCEPT ![w] =
                              IF Truthy(Get(hw.message, "image_key", Str(<<>>)))
                              THEN "download" ELSE "publish"]
                  /\ UNCHANGED msgs
    /\ UNCHANGED <<wstate, conn, projection_dim, conv_stats, tmp, legacy>>

\* pathlib.Path(object_name).suffix
Suffix(object_name) ==
    LET name == SubSeq(object_name, LastIndexOf(object_name, "/") + 1, Len(object_name))
        i == LastIndexOf(name, ".")
    IN  IF 1 < i /\ i < Len(name) THEN SubSeq(name, i, Len(name)) ELSE <<>>

\* minio_handler.download_image, lines 107-110: the local file of an item
FilePath(object_name, item_id) ==
    PyStr(item_id) \o <<"_", "m", "i", "n", "i", "o">>
        \o (IF Suffix(object_name) # <<>> THEN Suffix(object_name) ELSE <<".", "j", "p", "g">>)

\* the answers of the object store to stat_object / fget_object, and the
\* result of verifying the downloaded file
StoreAnswers == {"not_found", "too_large", "fetch_error", "invalid_image", "ok"}

\* download_image without the size check: an oversized object is downloaded
download_image_no_size_check(a) ==
    CASE a \in {"ok", "too_large"} -> [path |-> TRUE, file |-> "written"]
      [] a = "invalid_image" -> [path |-> FALSE, file |-> "removed"]
      [] OTHER -> [path |-> FALSE, file |-> "untouched"]

\* minio_handler.download_image: whether a path is returned (else None) and
\* what happened to the local file: the size check and a failing stat return
\* before the download, a failing fget_object leaves no file, a file that
\* fails Image.verify is removed again
download_image(a) ==
    CASE a = "ok" -> [path |-> TRUE, file |-> "written"]
      [] a = "invalid_image" -> [path |-> FALSE, file |-> "removed"]
      [] OTHER -> [path |-> FALSE, file |-> "untouched"]

\* main.py lines 144-149 with minio_handler.download_image
Download(w) ==
    /\ pc[w] = "download"
    /\ \E a \in StoreAnswers :
         LET file == FilePath(h[w].message["image_key"].s, h[w].message["item_id"])
             hw == [h[w] EXCEPT !.resp = Append(@, Resp("store", a, <<0, 0>>)),
                                !.ran = @ \cup {"download"}]
             res == download_image(a)
         IN  /\ tmp' = CASE res.file = "written" -> tmp \cup {file}
                         [] res.file = "removed" -> tmp \ {file}
                         [] OTHER -> tmp
             /\ h' = [h EXCEPT ![w] = IF res.path THEN [hw EXCEPT !.image_path = <<file>>] ELSE hw]
             /\ pc' = [pc EXCEPT ![w] = IF res.path THEN "encode_image" ELSE "publish"]
    /\ UNCHANGED <<msgs, wstate, conn, projection_dim, conv_stats, legacy>>

\* main.py lines 150-151 and 155-156: clip_handler.encode_image opens the
\* file and encodes it; any exception is logged and the image is skipped
EncodeImage(w) ==
    /\ pc[w] = "encode_image"
    /\ \E a \in EncoderAnswers("encode_image") :
         LET hw == [h[w] EXCEPT !.resp = Append(@, a), !.ran = @ \cup {"encode_image"}]
         IN  IF a.r = "raise" \/ h[w].image_path[1] \notin tmp
             THEN /\ h' = [h EXCEPT ![w] = hw]
                  /\ pc' = [pc EXCEPT ![w] = "publish"]
             ELSE /\ h' = [h EXCEPT ![w] = [hw EXCEPT !.image_embedding =
                                               <<[dim |-> projection_dim, c |-> a.c]>>]]
                  /\ pc' = [pc EXCEPT ![w] = "cleanup"]
    /\ UNCHANGED <<msgs, wstate, conn, projection_dim, conv_stats, tmp, legacy>>

\* main.py lines 153-154 with minio_handler.cleanup_image
Cleanup(w) ==
    /\ pc[w] = "cleanup"
    /\ tmp' = tmp \ {h[w].image_path[1]}
    /\ pc' = [pc EXCEPT ![w] = "publish"]
    /\ UNCHANGED <<msgs, wstate, conn, projection_dim, h, conv_stats, legacy>>

\* the embedding averaged with a zero image vector when there is no image
final_embedding_always_average(text_embedding, image_embedding) ==
    average_embeddings(text_embedding[1],
                       IF image_embedding # <<>> THEN image_embedding[1]
                       ELSE [dim |-> text_embedding[1].dim, c |-> <<0, 0>>])

\* main.py lines 158-165: the embedding that is published
final_embedding(text_embedding, image_embedding) ==
    IF image_embedding # <<>>
    THEN average_embeddings(text_embedding[1], image_embedding[1])
    ELSE text_embedding[1]

PublishAnswers == {"ok", "raise"}

\* main.py lines 158-184: build the record and basic_publish it
Publish(w) ==
    /\ pc[w] = "publish"
    /\ \E a \in PublishAnswers :
         LET record == create_output_message(
                           h[w].message,
                           final_embedding(h[w].text_embedding, h[w].image_embedding),
                           h[w].image_embedding # <<>>,
                           utcnow)
             hw == [h[w] EXCEPT !.resp = Append(@, Resp("publish", a, <<0, 0>>)),
                                !.ran = @ \cup {"publish"}]
         IN  IF a = "raise"
             THEN Dispose(w, hw, ExceptClause("AMQPError"))
             ELSE /\ msgs' = [msgs EXCEPT ![h[w].msg].published = TRUE]
                  /\ h' = [h EXCEPT ![w] = [hw EXCEPT !.records = Append(@, record),
                                                      !.calls = Append(@, "publish")]]
                  /\ pc' = [pc EXCEPT ![w] = "ack"]
    /\ UNCHANGED <<wstate, conn, projection_dim, conv_stats, tmp, legacy>>

\* main.py lines 186-187: basic_ack after the publish
Ack(w) ==
    /\ pc[w] = "ack"
    /\ Dispose(w, h[w], "ack")
    /\ UNCHANGED <<wstate, conn, projection_dim, conv_stats, tmp, legacy>>

\* main.py lines 217-225: KeyboardInterrupt is raised in the main thread
\* inside start_consuming, which is also where process_message runs; it is
\* not an Exception, so the except clauses of process_message let it pass
\* and a call in flight is cut off where it stands.  stop_consuming() and
\* connection.close() follow, and the broker requeues the unacknowledged
\* delivery of the closed connection.
Interrupt(w) ==
    /\ wstate[w] = "consuming"
    /\ wstate' = [wstate EXCEPT ![w] = "stopped"]
    /\ conn' = [conn EXCEPT ![w].channel = "closed"]
    /\ IF pc[w] \in {"idle", "done"}
       THEN UNCHANGED <<msgs, pc>>
       ELSE /\ msgs' = [msgs EXCEPT ![h[w].msg].st = "ready"]
            /\ pc' = [pc EXCEPT ![w] = "interrupted"]
    /\ UNCHANGED <<projection_dim, h, conv_stats, tmp, legacy>>

\* process_message returns to the consumer loop, its locals are gone
Return(w) ==
    /\ pc[w] = "done"
    /\ pc' = [pc EXCEPT ![w] = "idle"]
    /\ h' = [h EXCEPT ![w] = H0]
    /\ UNCHANGED <<msgs, wstate, conn, projection_dim, conv_stats, tmp, legacy>>

Next ==
    \/ \E w \in Workers : LoadModel(w)
    \/ \E w \in Workers : Connect(w)
    \/ \E w \in Workers, m \in MsgIds, p \in Payloads : Deliver(w, m, p)
    \/ \E w \in Workers, m \in MsgIds : Redeliver(w, m)
    \/ \E w \in Workers : Parse(w)
    \/ \E w \in Workers : Normalize(w)
    \/ \E w \in Workers : EncodeText(w)
    \/ \E w \in Workers : Download(w)
    \/ \E w \in Workers : EncodeImage(w)
    \/ \E w \in Workers : Cleanup(w)
    \/ \E w \in Workers : Publish(w)
    \/ \E w \in Workers : Ack(w)
    \/ \E w \in Workers : Return(w)
    \/ \E w \in Workers : Interrupt(w)

Spec == Init /\ [][Next]_vars

(***************************************************************************)
(* The enhanced worker (main_enhanced.py).  A worker process runs either   *)
(* main.py or main_enhanced.py; which one shows in its first step.         *)
(***************************************************************************)
\* startup_event, lines 294-295: CLIPService() and initialize(), which loads
\* the model; when load_model raises, the application does not start
Initialize(w) ==
    /\ wstate[w] = "new"
    /\ \/ wstate' = [wstate EXCEPT ![w] = "initialized"]
       \/ wstate' = [wstate EXCEPT ![w] = "stopped"]
    /\ UNCHANGED <<msgs, conn, projection_dim, pc, h, conv_stats, tmp, legacy>>

\* lines 297-299 and 242-262: the consumer thread runs start_consumer_loop:
\* connect_rabbitmq, which raises when the broker cannot be reached and
\* thereby ends the thread, then basic_consume and start_consuming
StartConsumerLoop(w) ==
    /\ wstate[w] = "initialized"
    /\ \/ /\ wstate' = [wstate EXCEPT ![w] = "consuming_enhanced"]
          /\ conn' = [conn EXCEPT ![w] = ConnOpen]
       \/ /\ wstate' = [wstate EXCEPT ![w] = "stopped"]
          /\ UNCHANGED conn
    /\ UNCHANGED <<msgs, projection_dim, pc, h, conv_stats, tmp, legacy>>

\* the broker hands message m with payload p to a consuming enhanced worker
\* (basic_qos(prefetch_count=1), line 115)
EnhancedReceive(w, m, p) ==
    /\ wstate[w] = "consuming_enhanced"
    /\ basic_qos(w)
    /\ utcnow < MaxDeliveries
    /\ msgs' = [msgs EXCEPT ![m].payload = p, ![m].st = "unacked", ![m].deliveries = @ + 1]
    /\ h' = [h EXCEPT ![w] = [H0 EXCEPT !.msg = m, !.body = p,
                                         !.fault = projection_dim # D]]
    /\ pc' = [pc EXCEPT ![w] = "enhanced_parse"]
    /\ UNCHANGED <<wstate, conn, projection_dim, conv_stats, tmp, legacy>>

EnhancedDeliver(w, m, p) ==
    /\ msgs[m].st = "none"
    /\ \A k \in MsgIds : k < m => msgs[k].st # "none"
    /\ EnhancedReceive(w, m, p)

EnhancedRedeliver(w, m) ==
    /\ msgs[m].st = "ready"
    /\ EnhancedReceive(w, m, msgs[m].payload)

\* the methods of MessageConverter (message_converter.py)
MessageConverterMethods ==
    {"normalize_message", "_extract_image_key", "_url_to_object_key",
     "_normalize_object_key", "_normalize_text", "validate_message",
     "_is_valid_object_key", "get_statistics", "reset_statistics",
     "create_output_message"}

\* main_enhanced.process_message, lines 131-136 and 231-240: json.loads,
\* raw_message.get, and the call of message_converter.convert_to_normalized,
\* which MessageConverter does not have: the attribute lookup raises
\* AttributeError, and the except clauses choose the nack.  The lines after
\* 136 are never reached.
EnhancedProcess(w) ==
    /\ pc[w] = "enhanced_parse"
    /\ "convert_to_normalized" \notin MessageConverterMethods
    /\ CASE h[w].body.kind = "bad_json" -> Dispose(w, h[w], ExceptClause("JSONDecodeError"))
         [] h[w].body.kind = "bad_utf8" -> Dispose(w, h[w], ExceptClause("UnicodeDecodeError"))
         [] OTHER -> Dispose(w, h[w], ExceptClause("AttributeError"))
    /\ UNCHANGED <<wstate, conn, projection_dim, conv_stats, tmp, legacy>>

EnhancedNext ==
    \/ \E w \in Workers : Initialize(w)
    \/ \E w \in Workers : StartConsumerLoop(w)
    \/ \E w \in Workers, m \in MsgIds, p \in Payloads : EnhancedDeliver(w, m, p)
    \/ \E w \in Workers, m \in MsgIds : EnhancedRedeliver(w, m)
    \/ \E w \in Workers : EnhancedProcess(w)

\* workers of both kinds on one queue
FleetNext == Next \/ EnhancedNext

FleetSpec == Init /\ [][FleetNext]_vars

(***************************************************************************)
(* CLIPService.connect_rabbitmq (main.py lines 57-100), attempt by attempt. *)
(* conn[w].attempt is the loop variable, conn[w].sleeps counts the calls   *)
(* of time.sleep, conn[w].waiting holds while the call sleeps.  The locals *)
(* stay readable until basic_consume.                                      *)
(***************************************************************************)
\* line 57: the default of max_retries, which start() uses (line 206)
max_retries == 5

\* a loop that sleeps after every failed attempt
retry_after_every_failure(attempt) == attempt < max_retries

\* line 94: a failed attempt is followed by a sleep and another attempt
retry(attempt) == attempt < max_retries - 1

\* what an attempt can meet: success, pika's AMQPConnectionError, or an
\* exception of another class (a channel error of a declaration, say)
AttemptOutcomes == {"ok", "AMQPConnectionError", "other"}

\* lines 59-96: one pass of the loop body.  A failed attempt may leave a
\* dead channel in self.channel when the connection was lost after line 67.
ConnectAttempt(w) ==
    /\ wstate[w] = "loaded"
    /\ ~conn[w].waiting
    /\ conn[w].attempt < max_retries
    /\ \E o \in AttemptOutcomes, c \in {"none", "closed"} :
         CASE o = "ok" ->
                /\ conn' = [conn EXCEPT ![w].channel = "open", ![w].prefetch_count = 1]
                /\ wstate' = [wstate EXCEPT ![w] = "connected"]
           [] o = "AMQPConnectionError" ->
                IF retry(conn[w].attempt)
                THEN /\ conn' = [conn EXCEPT ![w].channel = c, ![w].waiting = TRUE]
                     /\ UNCHANGED wstate
                ELSE /\ conn' = [conn EXCEPT ![w].channel = c]
                     /\ wstate' = [wstate EXCEPT ![w] = "exited"]
           [] OTHER ->
                /\ conn' = [conn EXCEPT ![w].channel = c]
                /\ wstate' = [wstate EXCEPT ![w] = "stopped"]
    /\ UNCHANGED <<msgs, projection_dim, pc, h, conv_stats, tmp, legacy>>

\* line 96: time.sleep(retry_delay) returns and the loop goes on
Sleep(w) ==
    /\ wstate[w] = "loaded"
    /\ conn[w].waiting
    /\ conn' = [conn EXCEPT ![w].waiting = FALSE, ![w].attempt = @ + 1, ![w].sleeps = @ + 1]
    /\ UNCHANGED <<msgs, wstate, projection_dim, pc, h, conv_stats, tmp, legacy>>

\* lines 212-218: self.channel.basic_consume and start_consuming, which need
\* the channel that connect_rabbitmq has left in self.channel
BasicConsume(w) ==
    /\ wstate[w] = "connected"
    /\ conn[w].channel = "open"
    /\ wstate' = [wstate EXCEPT ![w] = "consuming"]
    /\ conn' = [conn EXCEPT ![w] = ConnOpen]
    /\ UNCHANGED <<msgs, projection_dim, pc, h, conv_stats, tmp, legacy>>

ConnectNext ==
    \/ \E w \in Workers : LoadModel(w)
    \/ \E w \in Workers : ConnectAttempt(w)
    \/ \E w \in Workers : Sleep(w)
    \/ \E w \in Workers : BasicConsume(w)

ConnectSpec == Init /\ [][ConnectNext]_vars

(***************************************************************************)
(* The legacy data converter (src/legacy-data-converter/main.py): one      *)
(* process that consumes dataset messages from q.datasets.process and      *)
(* publishes the converted items with routing key item.submitted.          *)
(***************************************************************************)
\* rabbitmq_handler.ack_message / nack_message on the dataset message, and
\* the finally clause of lines 128-133, which unlinks the temporary file
LegacyDispose(call) ==
    legacy' = [legacy EXCEPT
                 !.ds[legacy.run.cur].st = CASE call = "ack" -> "acked"
                                             [] call = "nack_drop" -> "dropped"
                                             [] OTHER -> "ready",
                 !.run.calls = Append(@, call),
                 !.run.temp_file = FALSE,
                 !.run.pc = "done"]

\* the broker hands dataset message d to process_message: a first delivery
\* with payload p, or the redelivery of a requeued message
\* (basic_qos(prefetch_count=1), rabbitmq_handler.py line 138)
LegacyReceive(d, p) ==
    /\ legacy.run.pc = "idle"
    /\ legacy.ds[d].deliveries < MaxDeliveries
    /\ \/ legacy.ds[d].st = "none" /\ \A k \in DatasetIds : k < d => legacy.ds[k].st # "none"
       \/ legacy.ds[d].st = "ready" /\ p = legacy.ds[d].payload
    /\ legacy' = [legacy EXCEPT !.ds[d] = [payload |-> p, st |-> "unacked",
                                           deliveries |-> @.deliveries + 1],
                                !.run = [L0 EXCEPT !.pc = "parse", !.cur = d]]
    /\ UNCHANGED clip_vars

\* main.py lines 52-77: json.loads, message.get, the file_data check,
\* b64decode and the temporary file
LegacyParse ==
    /\ legacy.run.pc = "parse"
    /\ LET kind == legacy.ds[legacy.run.cur].payload.kind
       IN  CASE kind = "bad_json" -> LegacyDispose("nack_drop")
             [] kind = "non_object" -> LegacyDispose("nack_requeue")
             [] kind = "no_file_data" -> LegacyDispose("nack_drop")
             [] kind = "bad_base64" -> LegacyDispose("nack_drop")
             [] OTHER -> legacy' = [legacy EXCEPT !.run.pc = "convert",
                                                  !.run.temp_file = TRUE]
    /\ UNCHANGED clip_vars

\* main.py lines 79-111: text_extractor.extract and nlp_converter.convert;
\* one item per row of raw_data, or one item for the whole file.  An
\* exception of the extractor reaches the generic except clause.
LegacyConvert ==
    /\ legacy.run.pc = "convert"
    /\ LET p == legacy.ds[legacy.run.cur].payload
       IN  IF p.kind = "bad_file"
           THEN LegacyDispose("nack_requeue")
           ELSE legacy' = [legacy EXCEPT !.run.pc = "publish",
                                         !.run.items = IF p.kind = "rows" THEN p.rows ELSE 1]
    /\ UNCHANGED clip_vars

\* rabbitmq_handler.publish_item, lines 74-126: True when basic_publish
\* returned, False when anything raised
publish_item(answer) == answer = "ok"

\* main.py lines 113-121: the next item of the loop is published; a
\* failure is logged and the loop goes on
LegacyPublishItem ==
    /\ legacy.run.pc = "publish"
    /\ \E i \in {Len(legacy.run.calls) + 1}, a \in PublishAnswers :
         /\ i <= legacy.run.items
         /\ legacy' = [legacy EXCEPT
                         !.run.calls = Append(@, IF publish_item(a) THEN "publish" ELSE "publish_failed"),
                         !.run.sent = IF publish_item(a) THEN @ \cup {i} ELSE @,
                         !.run.published_count = IF publish_item(a) THEN @ + 1 ELSE @]
    /\ UNCHANGED clip_vars

\* main.py lines 123-126: the acknowledgement after the loop
ack_after_loop(published_count, items) == "ack"

LegacyAck ==
    /\ legacy.run.pc = "publish"
    /\ Len(legacy.run.calls) = legacy.run.items
    /\ LegacyDispose(ack_after_loop(legacy.run.published_count, legacy.run.items))
    /\ UNCHANGED clip_vars

\* process_message returns to the consumer loop
LegacyReturn ==
    /\ legacy.run.pc = "done"
    /\ legacy' = [legacy EXCEPT !.run = L0]
    /\ UNCHANGED clip_vars

LegacyNext ==
    \/ \E d \in DatasetIds, p \in Datasets : LegacyReceive(d, p)
    \/ LegacyParse
    \/ LegacyConvert
    \/ LegacyPublishItem
    \/ LegacyAck
    \/ LegacyReturn

LegacySpec == Init /\ [][LegacyNext]_vars

(***************************************************************************)
(* The workers under a fair queue and transient faults: the workers keep   *)
(* running, every requeued message is delivered again, and the encoder and *)
(* the publish target fail at most MaxFaults times in all.                 *)
(***************************************************************************)
MaxFaults == 1

\* the payloads on which process_message ends with an ack, a drop or a
\* requeue caused by a collaborator
LivePayloads == {P_bad_json, P_text_only, P_no_item_id, P_with_image}

\* the deliveries that were requeued so far
Requeues ==
    utcnow - Cardinality({m \in MsgIds : msgs[m].st # "none"})
           + Cardinality({m \in MsgIds : msgs[m].st = "ready"})

\* the answers of the collaborators in these runs: the encoder returns one
\* vector or raises, the object store has the object or not
LiveAnswers == {Resp(op, "ok", <<Scale, 0>>) : op \in {"encode_text", "encode_image"}}
               \cup {Resp(op, "raise", <<0, 0>>) : op \in {"encode_text", "encode_image"}}
               \cup {Resp("store", r, <<0, 0>>) : r \in {"ok", "not_found"}}
               \cup {Resp("publish", r, <<0, 0>>) : r \in PublishAnswers}

\* a step of process_message of worker w in which the collaborator answers
\* from LiveAnswers and a failure requeues only while the faults are within
\* MaxFaults
Transient(w, step) ==
    /\ step
    /\ \A i \in 1..Len(h'[w].resp) : h'[w].resp[i] \in LiveAnswers
    /\ (\E m \in MsgIds : msgs[m].st # "ready" /\ msgs'[m].st = "ready") => Requeues < MaxFaults

LiveLoadModel(w) == LoadModel(w) /\ wstate'[w] = "loaded"

LiveDeliver(w, m, p) ==
    /\ msgs[m].st = "none"
    /\ \A k \in MsgIds : k < m => msgs[k].st # "none"
    /\ Receive(w, m, p)

LiveRedeliver(w, m) ==
    /\ msgs[m].st = "ready"
    /\ Receive(w, m, msgs[m].payload)

\* the steps of worker w: start() and process_message
WorkerStep(w) ==
    \/ LiveLoadModel(w)
    \/ Connect(w)
    \/ Parse(w)
    \/ Normalize(w)
    \/ Transient(w, EncodeText(w))
    \/ Transient(w, Download(w))
    \/ Transient(w, EncodeImage(w))
    \/ Cleanup(w)
    \/ Transient(w, Publish(w))
    \/ Ack(w)
    \/ Return(w)

LiveNext ==
    \/ \E w \in Workers : WorkerStep(w)
    \/ \E w \in Workers, m \in MsgIds, p \in LivePayloads : LiveDeliver(w, m, p)
    \/ \E w \in Workers, m \in MsgIds : LiveRedeliver(w, m)

LiveSpec ==
    /\ Init
    /\ [][LiveNext]_vars
    /\ \A w \in Workers : WF_vars(WorkerStep(w))
    /\ \A m \in MsgIds : WF_vars(\E w \in Workers : LiveRedeliver(w, m))

(***************************************************************************)
(* The converter on its own: process_message up to the validation of the   *)
(* normalized message (main.py lines 110-123), for the converter payloads. *)
(* After Normalize, h[w].body.fields is the inbound mapping, h[w].message  *)
(* what normalize_message returned, h[w].error_msg what validate_message   *)
(* returned for it and conv_stats[w] the converter's counters; the worker  *)
(* is at "encode_text" when the message was valid and at "done" when not.  *)
(***************************************************************************)
ConvNext ==
    \/ \E w \in Workers : LoadModel(w)
    \/ \E w \in Workers : Connect(w)
    \/ \E w \in Workers, m \in MsgIds, p \in ConvPayloads : Deliver(w, m, p)
    \/ \E w \in Workers : Parse(w)
    \/ \E w \in Workers : Normalize(w)

ConvSpec == Init /\ [][ConvNext]_vars

\* the converter over the calls of one worker after another: a worker whose
\* call has ended (the message was invalid and acked) returns to the
\* consumer loop and takes the next delivery, with the same MessageConverter
ConvSeqNext ==
    \/ ConvNext
    \/ \E w \in Workers : Return(w)

ConvSeqSpec == Init /\ [][ConvSeqNext]_vars

(***************************************************************************)
(* CLIPHandler.combine_embeddings (clip_handler_enhanced.py) on its own:   *)
(* the two embeddings and the text weight (in tenths) are the inputs, the  *)
(* call leaves its result in combined.                                     *)
(***************************************************************************)
\* unit vectors, antipodal pairs among them
CombineVecs ==
    UnitVecs \cup {<<0 - Scale, 0>>, <<0, 0 - Scale>>,
                   <<(6 * Scale) \div 10, (8 * Scale) \div 10>>,
                   <<0 - (6 * Scale) \div 10, 0 - (8 * Scale) \div 10>>}

\* text_weight in tenths: -0.1, 0.0, 0.1, ..., 1.0, 1.1
Weights == (0 - 1)..11

CombineInit ==
    /\ msgs = [m \in MsgIds |-> [payload |-> P_bad_json, st |-> "none", deliveries |-> 0,
                                 published |-> FALSE]]
    /\ wstate = [w \in Workers |-> "new"]
    /\ conn = [w \in Workers |-> Conn0]
    /\ projection_dim = D
    /\ pc = [w \in Workers |-> "idle"]
    /\ \E a \in CombineVecs, b \in CombineVecs, t \in Weights :
          h = [w \in Workers |->
                  [H0 EXCEPT !.text_embedding = <<[dim |-> D, c |-> a]>>,
                             !.image_embedding = <<[dim |-> D, c |-> b]>>,
                             !.text_weight = t]]
    /\ conv_stats = [w \in Workers |-> Stats0]
    /\ tmp = {}
    /\ legacy = Legacy0

\* clip_handler.combine_embeddings(text_embedding, image_embedding, text_weight)
CombineEmbeddings(w) ==
    /\ h[w].combined = <<>>
    /\ h[w].text_embedding # <<>> /\ h[w].image_embedding # <<>>
    /\ h' = [h EXCEPT ![w].combined =
                 <<combine_embeddings(h[w].text_embedding[1], h[w].image_embedding[1],
                                      h[w].text_weight)>>]
    /\ UNCHANGED <<msgs, wstate, conn, projection_dim, pc, conv_stats, tmp, legacy>>

CombineNext == \E w \in Workers : CombineEmbeddings(w)

CombineSpec == CombineInit /\ [][CombineNext]_vars

TypeOK ==
    /\ \A w \in Workers : pc[w] \in {"idle", "parse", "normalize", "encode_text", "download",
                                     "encode_image", "cleanup", "publish", "ack", "done",
                                     "interrupted", "enhanced_parse"}
    /\ \A m \in MsgIds : msgs[m].st \in {"none", "ready", "unacked", "acked", "dropped"}

(***************************************************************************)
(* Properties of process_message (main.py).  A call has finished when the  *)
(* worker is at "done": h[w] then holds what the call received, what the   *)
(* collaborators answered (resp), the steps it ran (ran) and the channel   *)
(* calls it made (calls).                                                  *)
(***************************************************************************)
Done(w) == pc[w] = "done"

\* collaborator op answered r during the call
Answered(hw, op, r) == \E i \in 1..Len(hw.resp) : hw.resp[i].op = op /\ hw.resp[i].r = r

Invalid(hw) == "normalize" \in hw.ran /\ ~validate_message(hw.message).ok

\* C1: a message that fails validation is rejected with nack(requeue=False):
\* it is neither acknowledged nor requeued and nothing is published for it
C1_InvalidIsRejected ==
    \A w \in Workers :
        (Done(w) /\ Invalid(h[w])) =>
            /\ h[w].calls = <<"nack_drop">>
            /\ h[w].records = <<>>

\* C2: every basic_ack of a delivery comes after a successful basic_publish
\* of that delivery's record
C2_AckOnlyAfterPublish ==
    \A w \in Workers : \A i \in 1..Len(h[w].calls) :
        h[w].calls[i] = "ack" => \E j \in 1..(i - 1) : h[w].calls[j] = "publish"

\* C3: when basic_publish raises, the delivery is nacked with requeue=True
\* and not acknowledged in that call
C3_PublishErrorRequeues ==
    \A w \in Workers :
        (Done(w) /\ Answered(h[w], "publish", "raise")) =>
            /\ h[w].calls = <<"nack_requeue">>
            /\ h[w].records = <<>>

C3_Witness ==
    \E w \in Workers :
        /\ Done(w) /\ Answered(h[w], "publish", "raise")
        /\ h[w].calls = <<"nack_requeue">>
        /\ msgs[h[w].msg].st = "ready"

\* C4: a payload that is not valid JSON is nacked with requeue=False, is
\* neither requeued nor acknowledged, and normalization, embedding and
\* publish never run for it
C4_MalformedJsonIsDropped ==
    \A w \in Workers :
        (h[w].msg # 0 /\ h[w].body.kind = "bad_json") =>
            /\ h[w].ran = {}
            /\ h[w].records = <<>>
            /\ pc[w] \in {"parse", "done", "interrupted"}
            /\ Done(w) => (h[w].calls = <<"nack_drop">> /\ msgs[h[w].msg].st = "dropped")

C4_Witness ==
    \E w \in Workers :
        /\ Done(w) /\ h[w].msg # 0 /\ h[w].body.kind = "bad_json"
        /\ h[w].calls = <<"nack_drop">>

\* the image of the call was unavailable: not found, too large, fetch error,
\* not a valid image, or the encoder failed on it
ImageFailed(hw) ==
    \/ \E r \in StoreAnswers \ {"ok"} : Answered(hw, "store", r)
    \/ Answered(hw, "encode_image", "raise")

\* C5: an image failure is absorbed: the call goes on as text-only to the
\* publish step, and when the publish succeeds the record has
\* has_image_embedding = FALSE and the text embedding, and the delivery is
\* acknowledged
C5_ImageFailureIsAbsorbed ==
    \A w \in Workers :
        ImageFailed(h[w]) =>
            /\ h[w].image_embedding = <<>>
            /\ pc[w] \in {"publish", "ack", "done", "interrupted"}
            /\ Done(w) => "publish" \in h[w].ran
            /\ (Done(w) /\ Answered(h[w], "publish", "ok")) =>
                  /\ h[w].calls = <<"publish", "ack">>
                  /\ Len(h[w].records) = 1
                  /\ h[w].records[1].has_image_embedding = FALSE
                  /\ h[w].records[1].embedding = h[w].text_embedding[1]

C5_Witness ==
    \E w \in Workers :
        /\ Done(w) /\ Answered(h[w], "store", "too_large")
        /\ h[w].calls = <<"publish", "ack">>
        /\ h[w].records[1].has_image_embedding = FALSE

\* C6: a valid message without an image reference, with the encoder and the
\* publish succeeding, gives exactly one published record with
\* has_image_embedding = FALSE and the text embedding verbatim, then one ack
C6_TextOnlyMessage ==
    \A w \in Workers :
        /\ (h[w].body = P_text_only /\ "normalize" \in h[w].ran) =>
              /\ validate_message(h[w].message).ok
              /\ ~Truthy(h[w].message["image_key"])
        /\ (/\ Done(w) /\ "normalize" \in h[w].ran /\ ~Invalid(h[w])
            /\ ~Truthy(h[w].message["image_key"])
            /\ Answered(h[w], "encode_text", "ok") /\ Answered(h[w], "publish", "ok")) =>
              /\ h[w].calls = <<"publish", "ack">>
              /\ Len(h[w].records) = 1
              /\ h[w].records[1].has_image_embedding = FALSE
              /\ h[w].records[1].embedding = h[w].text_embedding[1]
              /\ h[w].records[1].embedding.c \in UnitVecs

C6_Witness ==
    \E w \in Workers :
        /\ Done(w) /\ h[w].body = P_text_only
        /\ h[w].calls = <<"publish", "ack">>
        /\ h[w].records[1].embedding = h[w].text_embedding[1]

\* C7: every published record has an embedding of exactly D components
\* (its other fields are always present)
C7_PublishedRecordIsDimensionValid ==
    \A w \in Workers : \A i \in 1..Len(h[w].records) :
        h[w].records[i].embedding.dim = D

\* C8: a call made under a configuration fault (the encoder's dimension is
\* not D) publishes nothing, does not requeue the delivery, and stops the
\* worker
C8_ConfigurationFaultIsFatal ==
    \A w \in Workers :
        (Done(w) /\ h[w].fault /\ Answered(h[w], "encode_text", "ok")) =>
            /\ h[w].records = <<>>
            /\ h[w].calls # <<"nack_requeue">>
            /\ wstate[w] = "stopped"

\* C9: a record published with has_image_embedding = TRUE carries the
\* 0.6 / 0.4 fusion of the text and image vectors, re-normalized to length 1
C9_FusedEmbeddingIsWeightedUnit ==
    \A w \in Workers : \A i \in 1..Len(h[w].records) :
        h[w].records[i].has_image_embedding =>
            LET fused == combine_embeddings(h[w].text_embedding[1], h[w].image_embedding[1], 6)
            IN  /\ fused.ok /\ ~fused.nan
                /\ h[w].records[i].embedding.c = fused.c
                /\ Norm(h[w].records[i].embedding.c) = Scale

WithoutTimestamp(records) == [i \in 1..Len(records) |-> [records[i] EXCEPT !.timestamp = 0]]

\* C10: two finished calls that received the same payload and the same
\* collaborator answers made the same channel calls and published records
\* that are equal except for the timestamp
C10_ProcessingIsAFunctionOfTheMessage ==
    \A w1, w2 \in Workers :
        (/\ Done(w1) /\ Done(w2)
         /\ h[w1].body = h[w2].body
         /\ h[w1].resp = h[w2].resp) =>
            /\ h[w1].calls = h[w2].calls
            /\ WithoutTimestamp(h[w1].records) = WithoutTimestamp(h[w2].records)

(***************************************************************************)
(* Scheduling and shutdown of the worker (main.py start).                  *)
(***************************************************************************)
\* the worker is inside process_message with a delivery it has not answered
InFlight(w) == pc[w] \notin {"idle", "done", "interrupted"}

\* C11: a worker has at most one message in flight: every unacknowledged
\* message is the current message of exactly one call in progress, and a
\* worker takes up another message only from idle, after the previous call
\* has acked or nacked and returned
C11_OneMessageInFlight ==
    /\ [](\A m \in MsgIds :
            msgs[m].st = "unacked" =>
                Cardinality({w \in Workers : InFlight(w) /\ h[w].msg = m}) = 1)
    /\ [][\A w \in Workers :
            (h'[w].msg # h[w].msg /\ h'[w].msg # 0) =>
                (pc[w] = "idle" /\ h[w].calls = <<>> /\ msgs'[h'[w].msg].st = "unacked")]_vars

C11_Witness ==
    \E w \in Workers :
        /\ InFlight(w) /\ msgs[h[w].msg].st = "unacked"
        /\ conv_stats[w].total_processed = 1 /\ "normalize" \notin h[w].ran

\* C12: a worker that has shut down was not cut off inside a call: the call
\* in flight ran to its ack or nack, and it acknowledged only after a publish
C12_ShutdownDrainsTheCallInFlight ==
    \A w \in Workers :
        wstate[w] = "stopped" =>
            /\ pc[w] # "interrupted"
            /\ (h[w].msg # 0 /\ pc[w] = "done") => h[w].calls # <<>>

\* the payload is a JSON object that passes validate_message once normalized
ValidPayload(p) == p.kind = "object" /\ validate_message(normalize_message(p.fields)).ok

\* C13: a valid message that was delivered is never acked or dropped before
\* a publish of its record has succeeded, and under fair redelivery and
\* transient faults it is eventually published and acked
C13_AtLeastOnceHandOff ==
    /\ [](\A m \in MsgIds :
            (ValidPayload(msgs[m].payload) /\ msgs[m].st \in {"acked", "dropped"}) =>
                msgs[m].published)
    /\ \A m \in MsgIds :
          (msgs[m].st # "none" /\ ValidPayload(msgs[m].payload))
              ~> (msgs[m].st = "acked" /\ msgs[m].published)

C13_Witness ==
    \E m \in MsgIds :
        /\ ValidPayload(msgs[m].payload) /\ msgs[m].deliveries = 2
        /\ msgs[m].st = "acked" /\ msgs[m].published

\* C14: the outcome of a call depends on its own message and answers only,
\* whatever the other worker does meanwhile: a call whose download and
\* whose image encoding both succeeded publishes a record with
\* has_image_embedding = TRUE
C14_WorkersShareNoState ==
    \A w \in Workers :
        (/\ Done(w) /\ h[w].records # <<>>
         /\ Answered(h[w], "store", "ok") /\ Answered(h[w], "encode_image", "ok")) =>
            h[w].records[1].has_image_embedding

(***************************************************************************)
(* Properties of the message converter (message_converter.py), over the    *)
(* calls of ConvSpec.  A worker of ConvSpec converts one message, so its   *)
(* counters are those of that call.                                        *)
(***************************************************************************)
\* normalize_message and validate_message have run in the call of worker w
Converted(w) == "normalize" \in h[w].ran

\* the inbound value of a field is a string
IsStr(v) == v.k = "str"

C16_CanonicalizationIsIdempotent ==
    \A w \in Workers :
        (Converted(w) /\ conv_stats[w].key_format = 1) =>
            /\ _normalize_object_key(h[w].message["image_key"].s) = h[w].message["image_key"].s
            /\ h[w].body.fields["image_key"] = Str(S_items_a_jpg) =>
                   h[w].message["image_key"] = Str(S_items_a_jpg)

\* canonical object-key form: no whitespace or '/' at either end, no
\* backslash, no repeated '/'
Canonical(s) ==
    /\ s # <<>> => (s[1] \notin Whitespace \cup {"/"} /\ s[Len(s)] \notin Whitespace \cup {"/"})
    /\ ~Contains(s, "\\")
    /\ \A i \in 1..(Len(s) - 1) : ~(s[i] = "/" /\ s[i + 1] = "/")

\* C17: every non-empty image_key of a normalized message is canonical,
\* whether it came from image_key or from image_url
C17_NormalizedKeyIsCanonical ==
    \A w \in Workers :
        (Converted(w) /\ Truthy(h[w].message["image_key"])) =>
            Canonical(h[w].message["image_key"].s)

\* the verdict on a normalized message by the three checks in their order,
\* for a given set of characters that a key must not contain
ChecksInOrder(message, forbidden) ==
    IF ~Truthy(message["item_id"]) THEN "Missing required field: item_id"
    ELSE IF \A f \in {"text", "description", "category"} : ~Truthy(message[f])
         THEN "Message must contain at least one text field"
    ELSE IF /\ Truthy(message["image_key"])
            /\ \/ \E i \in 1..Len(message["image_key"].s) : message["image_key"].s[i] \in forbidden
               \/ Utf8Bytes(message["image_key"].s) > 1024
         THEN "Invalid image_key format"
    ELSE "None"

\* C18 as stated: validate_message fails exactly when item_id is empty or
\* missing, else when text, description and category are all empty, else
\* when a non-empty image_key contains NUL, newline, carriage return or tab
\* or is longer than 1024 bytes, with the reason of the first failing check
C18_RejectsExactlyTheListedCases ==
    \A w \in Workers :
        Converted(w) =>
            /\ h[w].error_msg = ChecksInOrder(h[w].message, {"NUL", "\n", "\r", "\t"})
            /\ h[w].error_msg # "None" <=> pc[w] = "done"

\* C18 amended: as above, with the backslash among the characters that a
\* non-empty image_key must not contain
C18_RejectsListedCasesAndBackslash ==
    \A w \in Workers :
        Converted(w) =>
            /\ h[w].error_msg = ChecksInOrder(h[w].message, {"\\", "NUL", "\n", "\r", "\t"})
            /\ h[w].error_msg # "None" <=> pc[w] = "done"

C18_Witness ==
    \E w1, w2 \in Workers :
        /\ Converted(w1) /\ h[w1].message["image_key"] = Str(<<"a", "\\", "b">>)
        /\ h[w1].error_msg = "Invalid image_key format"
        /\ Converted(w2) /\ h[w2].body = T_empty_id
        /\ h[w2].error_msg = "Missing required field: item_id"

\* the inbound mapping has no image_key that _extract_image_key would use,
\* and an image_url that it would use
NoUsableKey(fields) ==
    ~(IsStr(fields["image_key"]) /\ Strip(fields["image_key"].s, Whitespace) # <<>>)

LegacyUrl(fields) ==
    IsStr(fields["image_url"]) /\ Strip(fields["image_url"].s, Whitespace) # <<>>

\* the host of the URL contains the storage marker
HostIsStorage(parsed) == HasSubstring(LowerStr(parsed.netloc), <<"m", "i", "n", "i", "o">>)

\* the path, without the slashes at its ends, after its first segment
AfterBucket(path) ==
    IF IndexOf(Strip(path, {"/"}), "/") = 0 THEN <<>>
    ELSE SubSeq(Strip(path, {"/"}), IndexOf(Strip(path, {"/"}), "/") + 1,
                Len(Strip(path, {"/"})))

\* the final segment of the path
LastSegment(path) == SubSeq(path, LastIndexOf(path, "/") + 1, Len(path))

\* the message went on without an image and one error was counted
TextOnlyWithError(w) ==
    /\ h[w].message["image_key"] = Str(<<>>)
    /\ conv_stats[w] = [Stats0 EXCEPT !.total_processed = 1, !.errors = 1]
    /\ pc[w] = "encode_text"

\* the rules of C19 as stated, for the parsed URL of worker w's message
StatedUrlRules(w, parsed) ==
    IF HostIsStorage(parsed) \/ parsed.port = 9000
    THEN h[w].message["image_key"] = Str(AfterBucket(parsed.path))
    ELSE IF Contains(LastSegment(parsed.path), ".")
         THEN h[w].message["image_key"] =
                  Str(<<"i", "t", "e", "m", "s", "/">> \o LastSegment(parsed.path))
    ELSE TextOnlyWithError(w)

\* C19 as stated: with an image_url and no usable image_key, a storage URL
\* (host with the marker, or port 9000) gives the path without its first
\* segment; else a final segment with '.' gives "items/" + segment; else
\* there is no key, errors is incremented once and the message goes on as
\* text-only
C19_UrlConversionAsStated ==
    \A w \in Workers :
        (Converted(w) /\ NoUsableKey(h[w].body.fields) /\ LegacyUrl(h[w].body.fields)) =>
            StatedUrlRules(w, UrlParse(Strip(h[w].body.fields["image_url"].s, Whitespace)))

\* the rules of C19 as the code applies them
AmendedUrlRules(w, parsed) ==
    IF (HostIsStorage(parsed) \/ (parsed.ok /\ parsed.port = 9000))
           /\ AfterBucket(parsed.path) # <<>>
    THEN /\ h[w].message["image_key"] = Str(AfterBucket(parsed.path))
         /\ conv_stats[w] = [Stats0 EXCEPT !.total_processed = 1, !.url_format = 1]
    ELSE IF (HostIsStorage(parsed) \/ parsed.ok) /\ Contains(LastSegment(parsed.path), ".")
         THEN /\ h[w].message["image_key"] =
                     Str(<<"i", "t", "e", "m", "s", "/">> \o LastSegment(parsed.path))
              /\ conv_stats[w] = [Stats0 EXCEPT !.total_processed = 1, !.url_format = 1]
    ELSE TextOnlyWithError(w)

\* C19 amended: a storage URL gives the path without its first segment when
\* the path has more than one segment; any other URL, storage URLs with one
\* segment included, gives "items/" + final segment when that segment has a
\* '.'; a URL without the marker whose port is not a number, and every
\* remaining URL, gives no key, one error and a text-only message
C19_UrlConversion ==
    \A w \in Workers :
        (Converted(w) /\ NoUsableKey(h[w].body.fields) /\ LegacyUrl(h[w].body.fields)) =>
            AmendedUrlRules(w, UrlParse(Strip(h[w].body.fields["image_url"].s, Whitespace)))

C19_Witness ==
    \E w1, w2 \in Workers :
        /\ Converted(w1) /\ h[w1].body = WithImage(Missing, Str(U_minio_one))
        /\ h[w1].message["image_key"] = Str(S_items_a_jpg)
        /\ conv_stats[w1].url_format = 1
        /\ Converted(w2) /\ h[w2].body = WithImage(None, Str(U_bad_port))
        /\ TextOnlyWithError(w2)

\* an inbound value as a cleaned string: "" when missing or None, else with
\* every whitespace run collapsed to one space and both edges trimmed
Cleaned(v) ==
    IF IsStr(v) THEN Str(CollapseRuns(Strip(v.s, Whitespace), Whitespace, " "))
    ELSE Str(<<>>)

\* C20: normalize_message yields title (the text field), description,
\* category, location, date_lost and contact_info as cleaned strings.  The
\* title is compared when the inbound mapping has a text or no title, and
\* contact_info when it is supplied or there is no email or phone to derive
\* it from.
C20_TextFieldsAreCleaned ==
    \A w \in Workers :
        Converted(w) =>
            /\ \A f \in {"description", "category", "location", "date_lost"} :
                   h[w].message[f] = Cleaned(h[w].body.fields[f])
            /\ (h[w].body.fields["text"] # Missing \/ h[w].body.fields["title"] = Missing) =>
                   h[w].message["text"] = Cleaned(h[w].body.fields["text"])
            /\ (\/ h[w].body.fields["contact_info"] # Missing
                \/ (/\ h[w].body.fields["contact_email"] = Missing
                    /\ h[w].body.fields["contact_phone"] = Missing)) =>
                   h[w].message["contact_info"] = Cleaned(h[w].body.fields["contact_info"])

\* the fields of a normalized message
NormalizedFields == {"item_id", "text", "description", "category", "location",
                     "date_lost", "contact_info", "image_key"}

CounterOf(fields, image_key) ==
    IF ~NoUsableKey(fields) THEN "key_format"
    ELSE IF LegacyUrl(fields) THEN (IF image_key.s # <<>> THEN "url_format" ELSE "errors")
    ELSE "no_image"

\* C22: every normalize_message call adds 1 to total_processed and 1 to
\* exactly one of key_format, url_format, no_image, errors (the one of its
\* case) and leaves the other counters as they were, no other step changes
\* the counters, and so total_processed is always the sum of the four
C22_CountersAddUp ==
    /\ [](\A w \in Workers :
            conv_stats[w].total_processed =
                conv_stats[w].key_format + conv_stats[w].url_format
                    + conv_stats[w].no_image + conv_stats[w].errors)
    /\ [][\A w \in Workers :
            IF pc[w] = "normalize" /\ pc'[w] # "normalize"
            THEN conv_stats'[w] =
                     [[conv_stats[w] EXCEPT !.total_processed = @ + 1]
                         EXCEPT ![CounterOf(h[w].body.fields, h'[w].message["image_key"])] = @ + 1]
            ELSE conv_stats'[w] = conv_stats[w]]_vars

C22_Witness ==
    \E w \in Workers :
        /\ Converted(w) /\ h[w].body = WithImage(Missing, Str(U_no_dot))
        /\ conv_stats[w] = [Stats0 EXCEPT !.total_processed = 2, !.url_format = 1, !.errors = 1]

(***************************************************************************)
(* Properties of combine_embeddings, over the calls of CombineSpec.        *)
(***************************************************************************)
\* a length of 1 within the tolerance of 0.01
NearUnit(c) == Norm(c) \in (Scale - Scale \div 100)..(Scale + Scale \div 100)

\* C23: for a weight in [0, 1] and two unit vectors of dimension D,
\* combine_embeddings returns a vector of dimension D and of length 1 within
\* tolerance; for a weight outside [0, 1] it raises ValueError
C23_CombinedEmbeddingIsUnit ==
    \A w \in Workers :
        h[w].combined # <<>> =>
            IF h[w].text_weight \in 0..10
            THEN /\ h[w].combined[1].ok /\ ~h[w].combined[1].nan
                 /\ h[w].combined[1].dim = D
                 /\ NearUnit(h[w].combined[1].c)
            ELSE ~h[w].combined[1].ok

(***************************************************************************)
(* Further properties of process_message, over the calls of Spec.          *)
(***************************************************************************)
\* C24: a payload that is not valid UTF-8, or whose JSON value is not an
\* object, is nacked with requeue=False and never with requeue=True
C24_StructuralFailuresAreRejected ==
    \A w \in Workers :
        (Done(w) /\ h[w].msg # 0 /\ h[w].body.kind \in {"bad_utf8", "non_object"}) =>
            h[w].calls = <<"nack_drop">>

\* another call is in flight that has stored the same file
SharedFile(w) ==
    \E v \in Workers \ {w} :
        /\ pc[v] \notin {"idle", "done"}
        /\ h[v].image_path = h[w].image_path

\* C27: when a delivery has been acked or nacked, the file that
\* download_image stored for it is no longer in the temporary directory
C27_NoImageFileOutlivesProcessing ==
    \A w \in Workers :
        (Done(w) /\ h[w].image_path # <<>> /\ ~SharedFile(w)) =>
            h[w].image_path[1] \notin tmp

(***************************************************************************)
(* Properties of the workers of both kinds, over the runs of FleetSpec.    *)
(***************************************************************************)
\* the worker runs main_enhanced.py and is consuming
Enhanced(w) == wstate[w] = "consuming_enhanced"

\* C25: in the enhanced worker the call for a well-formed valid message ends
\* with the message normalized, one record published and the delivery
\* acknowledged, without a nack
C25_EnhancedWorkerPublishesAndAcks ==
    \A w \in Workers :
        (Enhanced(w) /\ Done(w) /\ ValidPayload(h[w].body)) =>
            /\ "normalize" \in h[w].ran
            /\ h[w].calls = <<"publish", "ack">>
            /\ Len(h[w].records) = 1

Dispositions == {"ack", "nack_drop", "nack_requeue"}

\* the number of basic_ack / basic_nack calls among the calls of a delivery
NumDispositions(calls) == Cardinality({i \in 1..Len(calls) : calls[i] \in Dispositions})

\* C26: a call of process_message that has returned has made exactly one
\* basic_ack or basic_nack, as its last call on the channel; a call that is
\* still running has made none
C26_ExactlyOneDisposition ==
    \A w \in Workers :
        /\ Done(w) => /\ NumDispositions(h[w].calls) = 1
                      /\ h[w].calls[Len(h[w].calls)] \in Dispositions
        /\ ~Done(w) => NumDispositions(h[w].calls) = 0

C26_Witness ==
    \E w, v \in Workers :
        /\ Enhanced(w) /\ Done(w) /\ h[w].calls = <<"nack_requeue">>
        /\ wstate[v] = "consuming" /\ Done(v) /\ h[v].calls = <<"publish", "ack">>
        /\ h[v].image_path # <<>>

\* the worker has loaded the model and not yet connected
ModelLoaded(w) == wstate[w] \in {"loaded", "initialized"}

\* the worker is consuming from the queue
Consuming(w) == wstate[w] \in {"consuming", "consuming_enhanced"}

\* C28: a worker starts consuming only after load_model has succeeded, a
\* delivery is handed to process_message only at a consuming worker, and a
\* worker whose load_model failed never connects or consumes
C28_NoDeliveryBeforeTheModelIsLoaded ==
    /\ [][\A w \in Workers :
            /\ (Consuming(w)' /\ ~Consuming(w)) => ModelLoaded(w)
            /\ (ModelLoaded(w)' /\ ~ModelLoaded(w)) => wstate[w] = "new"
            /\ (h'[w].msg # 0 /\ h'[w] # h[w]) => Consuming(w)
            /\ wstate[w] = "stopped" => wstate'[w] = "stopped"]_vars
    /\ [](\A w \in Workers : (pc[w] # "idle" \/ conn[w].channel # "none") => wstate[w] # "new")

C28_Witness ==
    \E w, v \in Workers :
        /\ wstate[w] = "stopped" /\ conn[w].channel = "none"
        /\ Consuming(v) /\ pc[v] \notin {"idle", "done"} /\ h[v].msg # 0

(***************************************************************************)
(* Properties of connect_rabbitmq, over the runs of ConnectSpec.           *)
(***************************************************************************)
\* the step is a pass of the loop body for worker w
Attempted(w) ==
    /\ wstate[w] = "loaded" /\ ~conn[w].waiting
    /\ conn'[w] # conn[w] \/ wstate'[w] # wstate[w]

\* C29: connect_rabbitmq makes at most max_retries attempts, one sleep
\* before each attempt but the first and none after the last; it returns at
\* the first success with the channel open and prefetch 1 and attempts
\* nothing more; the max_retries-th connection error in a row exits the
\* process; and a worker consumes only with an open channel
C29_ConnectTerminates ==
    /\ [](\A w \in Workers :
            /\ conn[w].attempt < max_retries
            /\ conn[w].sleeps = conn[w].attempt
            /\ conn[w].waiting => (wstate[w] = "loaded" /\ conn[w].attempt < max_retries - 1)
            /\ wstate[w] \in {"connected", "consuming"} =>
                   (conn[w].channel = "open" /\ conn[w].prefetch_count = 1)
            /\ wstate[w] = "exited" =>
                   (conn[w].attempt = max_retries - 1 /\ conn[w].channel # "open"))
    /\ [][\A w \in Workers :
            /\ (wstate'[w] = "connected" /\ wstate[w] # "connected") => Attempted(w)
            /\ (wstate'[w] = "exited" /\ wstate[w] # "exited") =>
                   (Attempted(w) /\ conn[w].attempt = max_retries - 1)
            /\ wstate[w] \in {"connected", "consuming", "exited", "stopped"} =>
                   (conn'[w].attempt = 0 \/ conn'[w] = conn[w])
            /\ wstate[w] \in {"exited", "stopped"} => wstate'[w] = wstate[w]
            /\ (wstate'[w] = "consuming" /\ wstate[w] # "consuming") =>
                   (wstate[w] = "connected" /\ conn[w].channel = "open")]_vars

C29_Witness ==
    \E w, v \in Workers :
        /\ wstate[w] = "connected" /\ conn[w].attempt = 2 /\ conn[w].sleeps = 2
        /\ conn[w].channel = "open"
        /\ wstate[v] = "exited" /\ conn[v].sleeps = max_retries - 1

(***************************************************************************)
(* Properties of the legacy data converter, over the runs of LegacySpec.   *)
(***************************************************************************)
\* C30: a dataset message is acknowledged only when every item converted
\* from it has been published
C30_AckOnlyWhenEveryItemIsPublished ==
    (legacy.run.pc = "done" /\ legacy.run.calls # <<>>
        /\ legacy.run.calls[Len(legacy.run.calls)] = "ack") =>
            /\ legacy.run.published_count = legacy.run.items
            /\ legacy.run.sent = 1..legacy.run.items

====
